---- MODULE Spec2Model ----
(***************************************************************************)
(* A model of the rhyme engine: the phonetic utilities, the scoring        *)
(* functions, RhymeEngine.compare / RhymeEngine.checkRhyme, the dictionary *)
(* build script that produces the engine's artifacts, and the application  *)
(* start-up that loads them.                                               *)
(*                                                                         *)
(* Strings (words, phoneme symbols, index keys, raw lines) are sequences   *)
(* of one-character strings, so that upper-casing, trimming, suffix tests, *)
(* splitting and joining are computed and not assumed.  Scores are exact   *)
(* rationals <<numerator, denominator>> in lowest terms.                   *)
(***************************************************************************)
EXTENDS Integers, Sequences, FiniteSets, TLC

VARIABLES
    building,    \* the build script: the lines read so far and what it has built
    artifacts,   \* the files written by the build script: lexicon and indices
    freqText,    \* the lines of frequency_list.txt
    dictState,   \* App's DictionaryState: loading, engine, error
    lastCall,    \* the most recent engine call with its arguments and result
    pinned       \* an earlier compare call kept for comparison with later ones

vars == <<building, artifacts, freqText, dictState, lastCall, pinned>>

\* An optional value (T | null | undefined) is a sequence of at most one element.
None == <<>>
Some(v) == <<v>>

----------------------------------------------------------------------------
(* Strings as character sequences                                          *)

LowerChars == <<"a","b","c","d","e","f","g","h","i","j","k","l","m",
                "n","o","p","q","r","s","t","u","v","w","x","y","z">>
UpperChars == <<"A","B","C","D","E","F","G","H","I","J","K","L","M",
                "N","O","P","Q","R","S","T","U","V","W","X","Y","Z">>
DigitChars == {"0","1","2","3","4","5","6","7","8","9"}
SpaceChars == {" "}

upperChar(c) ==
    IF \E i \in 1..Len(LowerChars) : LowerChars[i] = c
    THEN UpperChars[CHOOSE i \in 1..Len(LowerChars) : LowerChars[i] = c]
    ELSE c

toUpperCase(s) == [i \in 1..Len(s) |-> upperChar(s[i])]

RECURSIVE trimStart(_)
trimStart(s) ==
    IF s # <<>> /\ Head(s) \in SpaceChars THEN trimStart(Tail(s)) ELSE s

RECURSIVE trimEnd(_)
trimEnd(s) ==
    IF s # <<>> /\ s[Len(s)] \in SpaceChars
    THEN trimEnd(SubSeq(s, 1, Len(s) - 1)) ELSE s

trim(s) == trimEnd(trimStart(s))

endsWith(s, suffix) ==
    /\ Len(s) >= Len(suffix)
    /\ SubSeq(s, Len(s) - Len(suffix) + 1, Len(s)) = suffix

startsWith(s, prefix) ==
    /\ Len(s) >= Len(prefix)
    /\ SubSeq(s, 1, Len(prefix)) = prefix

includes(s, c) == \E i \in 1..Len(s) : s[i] = c

\* parts.join(sep)
RECURSIVE join(_, _)
join(parts, sep) ==
    IF parts = <<>> THEN <<>>
    ELSE IF Len(parts) = 1 THEN parts[1]
    ELSE parts[1] \o sep \o join(Tail(parts), sep)

\* s.split(sep) for a non-empty separator: cut at each occurrence, left to right
RECURSIVE splitFrom(_, _, _)
splitFrom(s, sep, cur) ==
    IF s = <<>> THEN <<cur>>
    ELSE IF startsWith(s, sep)
         THEN <<cur>> \o splitFrom(SubSeq(s, Len(sep) + 1, Len(s)), sep, <<>>)
         ELSE splitFrom(Tail(s), sep, Append(cur, Head(s)))

split(s, sep) == splitFrom(s, sep, <<>>)

\* array.slice(from) with from >= 0, zero-based
sliceFrom(a, from) == SubSeq(a, from + 1, Len(a))

\* array.slice(-n)
sliceLast(a, n) == IF n >= Len(a) THEN a ELSE SubSeq(a, Len(a) - n + 1, Len(a))

\* array.slice(0, n)
sliceTo(a, n) == IF n >= Len(a) THEN a ELSE SubSeq(a, 1, n)

Range(a) == {a[i] : i \in 1..Len(a)}

Min(a, b) == IF a <= b THEN a ELSE b
Max(a, b) == IF a >= b THEN a ELSE b

----------------------------------------------------------------------------
(* Numbers: exact rationals <<n, d>> with d > 0, in lowest terms           *)

RECURSIVE GCD(_, _)
GCD(a, b) == IF b = 0 THEN a ELSE GCD(b, a % b)

Abs(x) == IF x < 0 THEN 0 - x ELSE x

Rat(n, d) ==
    IF n = 0 THEN <<0, 1>>
    ELSE LET g == GCD(Abs(n), d) IN <<n \div g, d \div g>>

Int2Rat(n) == <<n, 1>>
RAdd(x, y) == Rat(x[1] * y[2] + y[1] * x[2], x[2] * y[2])
RSub(x, y) == Rat(x[1] * y[2] - y[1] * x[2], x[2] * y[2])
RMul(x, y) == Rat(x[1] * y[1], x[2] * y[2])
RDivInt(x, k) == Rat(x[1], x[2] * k)            \* k > 0
RDiv(x, y) == Rat(x[1] * y[2], x[2] * y[1])     \* y > 0
RLt(x, y) == x[1] * y[2] < y[1] * x[2]
RLe(x, y) == x[1] * y[2] <= y[1] * x[2]
RAbs(x) == <<Abs(x[1]), x[2]>>
RZero == <<0, 1>>
ROne == <<1, 1>>

----------------------------------------------------------------------------
(* Phonetic utilities                                                      *)

isVowel(phoneme) == \E i \in 1..Len(phoneme) : phoneme[i] \in DigitChars

\* the largest index of a vowel phoneme, 0 when there is none
lastVowelIdx(phonemes) ==
    IF \E i \in 1..Len(phonemes) : isVowel(phonemes[i])
    THEN CHOOSE i \in 1..Len(phonemes) :
            /\ isVowel(phonemes[i])
            /\ \A j \in (i + 1)..Len(phonemes) : ~isVowel(phonemes[j])
    ELSE 0

getPerfectRhymeKey(phonemes) ==
    IF lastVowelIdx(phonemes) = 0 THEN None
    ELSE Some(join(sliceFrom(phonemes, lastVowelIdx(phonemes) - 1), <<" ">>))

\* an optional string used as a condition: null and "" are falsy
truthyStr(k) == k # None /\ k[1] # <<>>

Min3(a, b, c) == Min(a, Min(b, c))

\* one inner-loop pass of levenshtein: the row v1 computed from the row v0
RECURSIVE levRow(_, _, _, _, _)
levRow(v0, v1, si, t, j) ==
    IF j > Len(t) THEN v1
    ELSE LET cost == IF si = t[j] THEN 0 ELSE 1
         IN levRow(v0,
                   Append(v1, Min3(v1[j] + 1, v0[j + 1] + 1, v0[j] + cost)),
                   si, t, j + 1)

RECURSIVE levRows(_, _, _, _)
levRows(v0, s, t, i) ==
    IF i > Len(s) THEN v0
    ELSE levRows(levRow(v0, <<i>>, s[i], t, 1), s, t, i + 1)

\* the difference of the lengths in place of the edit distance
levenshteinLengthDiff(s, t) == Abs(Len(s) - Len(t))

levenshtein(s, t) ==
    IF s = t THEN 0
    ELSE IF Len(s) = 0 THEN Len(t)
    ELSE IF Len(t) = 0 THEN Len(s)
    ELSE levRows([i \in 1..(Len(t) + 1) |-> i - 1], s, t, 1)[Len(t) + 1]

----------------------------------------------------------------------------
(* Scoring                                                                 *)

\* the key taken from the last vowel with stress 1 or 2
stressedRhymeKey(phonemes) ==
    LET stressed == {i \in 1..Len(phonemes) :
                        includes(phonemes[i], "1") \/ includes(phonemes[i], "2")}
    IN IF stressed = {} THEN None
       ELSE Some(join(sliceFrom(phonemes,
                          (CHOOSE i \in stressed : \A j \in stressed : j <= i) - 1),
                      <<" ">>))

\* scorePerfect on the keys of the last stressed vowel
scorePerfectStressedOnly(candidate, target) ==
    LET cKey == stressedRhymeKey(candidate.p)
        tKey == stressedRhymeKey(target.p)
    IN IF ~truthyStr(cKey) \/ ~truthyStr(tKey) THEN RZero
       ELSE IF cKey = tKey THEN ROne ELSE RZero

\* scorePerfect giving half a point for equal keys
scorePerfectHalf(candidate, target) ==
    LET cKey == getPerfectRhymeKey(candidate.p)
        tKey == getPerfectRhymeKey(target.p)
    IN IF ~truthyStr(cKey) \/ ~truthyStr(tKey) THEN RZero
       ELSE IF cKey = tKey THEN <<1, 2>> ELSE RZero

scorePerfect(candidate, target) ==
    LET cKey == getPerfectRhymeKey(candidate.p)
        tKey == getPerfectRhymeKey(target.p)
    IN IF ~truthyStr(cKey) \/ ~truthyStr(tKey) THEN RZero
       ELSE IF cKey = tKey THEN ROne ELSE RZero

\* the loop of scoreNear: matches counted from the end, i = 1..checkLen
RECURSIVE nearMatches(_, _, _, _)
nearMatches(cp, tp, i, checkLen) ==
    IF i > checkLen THEN 0
    ELSE IF cp[Len(cp) - i + 1] = tp[Len(tp) - i + 1]
         THEN 1 + nearMatches(cp, tp, i + 1, checkLen)
         ELSE 0

\* the matches at all compared positions, without stopping at a mismatch
RECURSIVE nearMatchesAnywhere(_, _, _, _)
nearMatchesAnywhere(cp, tp, i, checkLen) ==
    IF i > checkLen THEN 0
    ELSE (IF cp[Len(cp) - i + 1] = tp[Len(tp) - i + 1] THEN 1 ELSE 0)
         + nearMatchesAnywhere(cp, tp, i + 1, checkLen)

\* scoreNear counting matches beyond a mismatch
scoreNearNSkipping(candidate, target, n) ==
    LET minLen == Min(Len(candidate.p), Len(target.p))
        checkLen == Min(n, minLen)
    IN IF checkLen = 0 THEN RZero
       ELSE Rat(nearMatchesAnywhere(candidate.p, target.p, 1, checkLen), n)

DefaultN == 3

scoreNearN(candidate, target, n) ==
    LET minLen == Min(Len(candidate.p), Len(target.p))
        checkLen == Min(n, minLen)
    IN IF checkLen = 0 THEN RZero
       ELSE Rat(nearMatches(candidate.p, target.p, 1, checkLen), n)

scoreNear(candidate, target) == scoreNearN(candidate, target, DefaultN)

scoreStress(candidate, target) ==
    LET dist == levenshtein(candidate.s, target.s)
        maxLen == Max(Len(candidate.s), Len(target.s))
    IN IF maxLen = 0 THEN RZero
       ELSE LET v == RSub(ROne, Rat(dist, maxLen))
            IN IF RLt(v, RZero) THEN RZero ELSE v

\* the switch with a default case that gives an unknown id full marks
schemeTargetScoreLenient(id, candidateEntry, target) ==
    CASE id = "perfect" -> scorePerfect(candidateEntry, target)
      [] id = "near"    -> scoreNear(candidateEntry, target)
      [] id = "stress"  -> scoreStress(candidateEntry, target)
      [] OTHER          -> ROne

\* the switch on scheme.id; no case matches an unknown id and val stays 0
schemeTargetScore(id, candidateEntry, target) ==
    CASE id = "perfect" -> scorePerfect(candidateEntry, target)
      [] id = "near"    -> scoreNear(candidateEntry, target)
      [] id = "stress"  -> scoreStress(candidateEntry, target)
      [] OTHER          -> RZero

RECURSIVE sumTargetScores(_, _, _)
sumTargetScores(id, candidateEntry, targets) ==
    IF targets = <<>> THEN RZero
    ELSE RAdd(schemeTargetScore(id, candidateEntry, Head(targets)),
              sumTargetScores(id, candidateEntry, Tail(targets)))

\* the least score over the targets in place of their mean
RECURSIVE schemeValMin(_, _, _)
schemeValMin(id, candidateEntry, targets) ==
    IF targets = <<>> THEN RZero
    ELSE LET first == schemeTargetScore(id, candidateEntry, Head(targets))
         IN IF Len(targets) = 1 THEN first
            ELSE LET others == schemeValMin(id, candidateEntry, Tail(targets))
                 IN IF RLe(first, others) THEN first ELSE others

\* the sum over the targets, not divided by their number
schemeValSum(id, candidateEntry, targets) ==
    sumTargetScores(id, candidateEntry, targets)

\* Average score against all targets
schemeVal(id, candidateEntry, targets) ==
    IF Len(targets) > 0
    THEN RDivInt(sumTargetScores(id, candidateEntry, targets), Len(targets))
    ELSE RZero

\* the loop over schemes: acc = [scores, weighted, weight]
RECURSIVE schemeLoop(_, _, _, _)
schemeLoop(candidateEntry, targets, schemes, acc) ==
    IF schemes = <<>> THEN acc
    ELSE LET scheme == Head(schemes)
             val == schemeVal(scheme.id, candidateEntry, targets)
         IN schemeLoop(candidateEntry, targets, Tail(schemes),
                [scores   |-> [id \in DOMAIN acc.scores \cup {scheme.id} |->
                                 IF id = scheme.id THEN val ELSE acc.scores[id]],
                 weighted |-> RAdd(acc.weighted, RMul(val, scheme.weight)),
                 weight   |-> RAdd(acc.weight, scheme.weight)])

\* scoreCandidate returning the weighted sum without dividing by the weight
scoreCandidateUnnormalized(candidateWord, candidateEntry, targets, schemes) ==
    LET acc == schemeLoop(candidateEntry, targets, schemes,
                   [scores |-> <<>>, weighted |-> RZero, weight |-> RZero])
    IN [word         |-> candidateWord,
        totalScore   |-> acc.weighted,
        schemeScores |-> acc.scores,
        breakdown    |-> <<>>]

scoreCandidate(candidateWord, candidateEntry, targets, schemes) ==
    LET acc == schemeLoop(candidateEntry, targets, schemes,
                   [scores |-> <<>>, weighted |-> RZero, weight |-> RZero])
        finalScore == IF RLt(RZero, acc.weight)
                      THEN RDiv(acc.weighted, acc.weight) ELSE RZero
    IN [word         |-> candidateWord,
        totalScore   |-> finalScore,
        schemeScores |-> acc.scores,
        breakdown    |-> <<>>]

----------------------------------------------------------------------------
(* Objects with string keys (Lexicon, PerfectIndex, TailIndex): a sequence *)
(* of [k, v] pairs with distinct keys, in insertion order, which is the    *)
(* order Object.entries enumerates them in.                                *)

hasKey(obj, key) == \E i \in 1..Len(obj) : obj[i].k = key

\* obj[key]: the value, or undefined
get(obj, key) ==
    IF hasKey(obj, key)
    THEN Some(obj[CHOOSE i \in 1..Len(obj) : obj[i].k = key].v)
    ELSE None

\* obj[key] = value: an existing key keeps its position
put(obj, key, value) ==
    IF hasKey(obj, key)
    THEN [i \in 1..Len(obj) |-> IF obj[i].k = key THEN [k |-> key, v |-> value]
                                                 ELSE obj[i]]
    ELSE Append(obj, [k |-> key, v |-> value])

keysOf(obj) == [i \in 1..Len(obj) |-> obj[i].k]

----------------------------------------------------------------------------
(* RhymeEngine.compare                                                     *)

DefaultLimit == 50
SentinelRank == 999999

\* a noise floor set too low
minScoreThresholdLow == <<1, 10>>

\* 0.3 and 0.001
minScoreThreshold == <<3, 10>>
TieTolerance == <<1, 1000>>

\* req.targets.map(t => t.toUpperCase())
normalizeTargets(targets) == [i \in 1..Len(targets) |-> toUpperCase(targets[i])]

\* normalizedTargets.map(t => this.lexicon[t]).filter(x => !!x)
RECURSIVE resolveTargets(_, _)
resolveTargets(lexicon, normalizedTargets) ==
    IF normalizedTargets = <<>> THEN <<>>
    ELSE LET x == get(lexicon, Head(normalizedTargets))
         IN x \o resolveTargets(lexicon, Tail(normalizedTargets))

\* a limit that lets one candidate too many through
limitOfInclusive(req) ==
    IF req.limit = None \/ req.limit[1] = 0 THEN DefaultLimit + 1
    ELSE req.limit[1] + 1

\* req.limit || 50
limitOf(req) ==
    IF req.limit = None \/ req.limit[1] = 0 THEN DefaultLimit ELSE req.limit[1]

\* this.frequencyMap.get(word), or 999999 when the word is not in the map
rankOf(frequencyMap, word) ==
    IF word \in DOMAIN frequencyMap THEN frequencyMap[word] ELSE SentinelRank

\* the loop over the lexicon without the exclusion of the targets
RECURSIVE scanLexiconKeepingTargets(_, _, _, _, _)
scanLexiconKeepingTargets(engine, normalizedTargets, targetEntries, schemes, i) ==
    IF i > Len(engine.lexicon) THEN <<>>
    ELSE LET word == engine.lexicon[i].k
             entry == engine.lexicon[i].v
             rest == scanLexiconKeepingTargets(engine, normalizedTargets,
                                               targetEntries, schemes, i + 1)
             scoreResult == scoreCandidate(word, entry, targetEntries, schemes)
         IN IF RLe(minScoreThreshold, scoreResult.totalScore)
            THEN <<[word          |-> scoreResult.word,
                    totalScore    |-> scoreResult.totalScore,
                    schemeScores  |-> scoreResult.schemeScores,
                    breakdown     |-> scoreResult.breakdown,
                    frequencyRank |-> rankOf(engine.frequencyMap, word)]>>
                 \o rest
            ELSE rest

\* the loop over Object.entries(this.lexicon), from entry number i on
RECURSIVE scanLexicon(_, _, _, _, _)
scanLexicon(engine, normalizedTargets, targetEntries, schemes, i) ==
    IF i > Len(engine.lexicon) THEN <<>>
    ELSE LET word == engine.lexicon[i].k
             entry == engine.lexicon[i].v
             rest == scanLexicon(engine, normalizedTargets, targetEntries,
                                 schemes, i + 1)
         IN IF word \in Range(normalizedTargets) THEN rest
            ELSE LET scoreResult == scoreCandidate(word, entry, targetEntries,
                                                   schemes)
                 IN IF RLe(minScoreThreshold, scoreResult.totalScore)
                    THEN <<[word          |-> scoreResult.word,
                            totalScore    |-> scoreResult.totalScore,
                            schemeScores  |-> scoreResult.schemeScores,
                            breakdown     |-> scoreResult.breakdown,
                            frequencyRank |-> rankOf(engine.frequencyMap, word)]>>
                         \o rest
                    ELSE rest

\* a.frequencyRank || 999999
rankOr(c) == IF c.frequencyRank = 0 THEN SentinelRank ELSE c.frequencyRank

Sign(x) == IF x < 0 THEN 0 - 1 ELSE IF x > 0 THEN 1 ELSE 0

\* the sign of the comparator given to candidates.sort
compareFn(a, b) ==
    LET scoreDiff == RSub(b.totalScore, a.totalScore)
    IN IF RLt(TieTolerance, RAbs(scoreDiff)) THEN Sign(scoreDiff[1])
       ELSE Sign(rankOr(a) - rankOr(b))

(* Array.prototype.sort as the JavaScript engine runs it on an array of     *)
(* fewer than 64 elements: the leading run is found (and reversed when it  *)
(* is strictly descending), then each remaining element is placed by       *)
(* binary insertion.  For a comparator that is a consistent order this is  *)
(* the stable sort; for one that is not, it is what the engine returns.    *)

reverseSeq(a) == [i \in 1..Len(a) |-> a[Len(a) - i + 1]]

\* the length of the run starting at a[1], having seen idx - 1 elements
RECURSIVE runLength(_, _, _)
runLength(a, isDescending, idx) ==
    IF idx > Len(a) THEN Len(a)
    ELSE LET order == compareFn(a[idx], a[idx - 1])
         IN IF isDescending
            THEN IF order >= 0 THEN idx - 1
                 ELSE runLength(a, isDescending, idx + 1)
            ELSE IF order < 0 THEN idx - 1
                 ELSE runLength(a, isDescending, idx + 1)

\* the zero-based position at which pivot goes into the sorted prefix
RECURSIVE insertionPoint(_, _, _, _)
insertionPoint(prefix, pivot, left, right) ==
    IF left >= right THEN left
    ELSE LET mid == left + ((right - left) \div 2)
         IN IF compareFn(pivot, prefix[mid + 1]) < 0
            THEN insertionPoint(prefix, pivot, left, mid)
            ELSE insertionPoint(prefix, pivot, mid + 1, right)

RECURSIVE binaryInsertionSort(_, _)
binaryInsertionSort(a, start) ==
    IF start > Len(a) THEN a
    ELSE LET prefix == SubSeq(a, 1, start - 1)
             pivot == a[start]
             left == insertionPoint(prefix, pivot, 0, start - 1)
         IN binaryInsertionSort(
                SubSeq(prefix, 1, left) \o <<pivot>>
                    \o SubSeq(prefix, left + 1, start - 1)
                    \o SubSeq(a, start + 1, Len(a)),
                start + 1)

sortCandidates(a) ==
    IF Len(a) < 2 THEN a
    ELSE LET isDescending == compareFn(a[2], a[1]) < 0
             run == runLength(a, isDescending, 3)
             made == IF isDescending
                     THEN reverseSeq(SubSeq(a, 1, run)) \o SubSeq(a, run + 1, Len(a))
                     ELSE a
         IN binaryInsertionSort(made, run + 1)

\* compare giving up as soon as one target is not in the lexicon
compareAllOrNothing(engine, req) ==
    LET normalizedTargets == normalizeTargets(req.targets)
        targetEntries == resolveTargets(engine.lexicon, normalizedTargets)
    IN IF Len(targetEntries) < Len(normalizedTargets) THEN [candidates |-> <<>>]
       ELSE LET candidates == scanLexicon(engine, normalizedTargets,
                                          targetEntries, req.schemes, 1)
            IN [candidates |-> sliceTo(sortCandidates(candidates), limitOf(req))]

compare(engine, req) ==
    LET normalizedTargets == normalizeTargets(req.targets)
        targetEntries == resolveTargets(engine.lexicon, normalizedTargets)
    IN IF Len(targetEntries) = 0 THEN [candidates |-> <<>>]
       ELSE LET candidates == scanLexicon(engine, normalizedTargets,
                                          targetEntries, req.schemes, 1)
            IN [candidates |-> sliceTo(sortCandidates(candidates), limitOf(req))]

----------------------------------------------------------------------------
(* RhymeEngine.checkRhyme                                                  *)

\* resolve trying the "ING" spelling before the word itself
resolveIngFirst(lexicon, w) ==
    IF endsWith(w, <<"I", "N">>)
          /\ get(lexicon, SubSeq(w, 1, Len(w) - 2) \o <<"I", "N", "G">>) # None
    THEN get(lexicon, SubSeq(w, 1, Len(w) - 2) \o <<"I", "N", "G">>)
    ELSE get(lexicon, w)

\* Helper to resolve entry with fuzzy fallback
resolve(lexicon, w) ==
    IF get(lexicon, w) # None THEN get(lexicon, w)
    ELSE IF endsWith(w, <<"I", "N">>)
         THEN LET tryIng == SubSeq(w, 1, Len(w) - 2) \o <<"I", "N", "G">>
              IN IF get(lexicon, tryIng) # None THEN get(lexicon, tryIng)
                 ELSE None
         ELSE None

\* p.find(ph => ph.includes('1') || ph.includes('2'))
getStressedVowel(p) ==
    IF \E i \in 1..Len(p) : includes(p[i], "1") \/ includes(p[i], "2")
    THEN Some(p[CHOOSE i \in 1..Len(p) :
                  /\ includes(p[i], "1") \/ includes(p[i], "2")
                  /\ \A j \in 1..(i - 1) :
                         ~(includes(p[j], "1") \/ includes(p[j], "2"))])
    ELSE None

\* a near threshold that two matching phonemes do not reach
NearThresholdHigh == <<7, 10>>

NearThreshold == <<6, 10>>

\* the judgment with an assonance test that passes when the second entry has
\* no stressed vowel
rhymingEntriesLenient(w1, entryA, entryB) ==
    LET perfectScore ==
            scoreCandidate(w1, entryA, <<entryB>>,
                           <<[id |-> "perfect", weight |-> ROne]>>)
        nearScore ==
            scoreCandidate(w1, entryA, <<entryB>>,
                           <<[id |-> "near", weight |-> ROne]>>)
        vA == getStressedVowel(entryA.p)
        vB == getStressedVowel(entryB.p)
    IN IF perfectScore.totalScore = ROne THEN TRUE
       ELSE IF RLe(NearThreshold, nearScore.totalScore) THEN TRUE
       ELSE IF truthyStr(vA) /\ (~truthyStr(vB) \/ vA = vB) THEN TRUE
       ELSE FALSE

\* the judgment on two resolved entries: perfect, near or assonance
rhymingEntries(w1, entryA, entryB) ==
    LET perfectScore ==
            scoreCandidate(w1, entryA, <<entryB>>,
                           <<[id |-> "perfect", weight |-> ROne]>>)
        nearScore ==
            scoreCandidate(w1, entryA, <<entryB>>,
                           <<[id |-> "near", weight |-> ROne]>>)
        vA == getStressedVowel(entryA.p)
        vB == getStressedVowel(entryB.p)
    IN IF perfectScore.totalScore = ROne THEN TRUE
       ELSE IF RLe(NearThreshold, nearScore.totalScore) THEN TRUE
       ELSE IF truthyStr(vA) /\ truthyStr(vB) /\ vA = vB THEN TRUE
       ELSE FALSE

\* checkRhyme without the same-word shortcut
checkRhymeNoShortcut(engine, wordA, wordB) ==
    LET w1 == trim(toUpperCase(wordA))
        w2 == trim(toUpperCase(wordB))
        entryA == resolve(engine.lexicon, w1)
        entryB == resolve(engine.lexicon, w2)
    IN IF entryA = None \/ entryB = None THEN FALSE
       ELSE rhymingEntries(w1, entryA[1], entryB[1])

checkRhyme(engine, wordA, wordB) ==
    LET w1 == trim(toUpperCase(wordA))
        w2 == trim(toUpperCase(wordB))
    IN IF w1 = w2 THEN TRUE
       ELSE LET entryA == resolve(engine.lexicon, w1)
                entryB == resolve(engine.lexicon, w2)
            IN IF entryA = None \/ entryB = None THEN FALSE
               ELSE rhymingEntries(w1, entryA[1], entryB[1])

----------------------------------------------------------------------------
(* The build script: one raw dictionary line at a time                     *)

\* the length of a trailing "(digits)" of the word, 0 when there is none:
\* what the regular expression /\(\d+\)$/ matches
RECURSIVE digitsBefore(_, _)
digitsBefore(s, i) ==
    IF i >= 1 /\ s[i] \in DigitChars THEN 1 + digitsBefore(s, i - 1) ELSE 0

variantSuffixLen(rawWord) ==
    IF rawWord # <<>> /\ rawWord[Len(rawWord)] = ")"
    THEN LET d == digitsBefore(rawWord, Len(rawWord) - 1)
         IN IF d >= 1 /\ Len(rawWord) - 1 - d >= 1
               /\ rawWord[Len(rawWord) - 1 - d] = "("
            THEN d + 2 ELSE 0
    ELSE 0

\* p.replace(/[^0-9]/g, '')
digitsOf(phoneme) == SelectSeq(phoneme, LAMBDA c : c \in DigitChars)

RECURSIVE concatAll(_)
concatAll(parts) ==
    IF parts = <<>> THEN <<>> ELSE Head(parts) \o concatAll(Tail(parts))

\* the stress digits in reverse phoneme order
getStressReversed(phonemes) ==
    LET vowels == SelectSeq(phonemes, isVowel)
    IN reverseSeq(concatAll([i \in 1..Len(vowels) |-> digitsOf(vowels[i])]))

getStress(phonemes) ==
    LET vowels == SelectSeq(phonemes, isVowel)
    IN concatAll([i \in 1..Len(vowels) |-> digitsOf(vowels[i])])

\* index[key].push(word), creating the list when the key is new
pushTo(index, key, word) ==
    put(index, key,
        IF hasKey(index, key) THEN Append(get(index, key)[1], word) ELSE <<word>>)

TailLens == <<2, 3>>

RECURSIVE addTails(_, _, _, _)
addTails(tailIndex, phonemes, word, i) ==
    IF i > Len(TailLens) THEN tailIndex
    ELSE IF Len(phonemes) >= TailLens[i]
         THEN addTails(pushTo(tailIndex,
                              join(sliceLast(phonemes, TailLens[i]), <<" ">>),
                              word),
                       phonemes, word, i + 1)
         ELSE addTails(tailIndex, phonemes, word, i + 1)

EmptyBuild == [lexicon |-> <<>>, perfectIndex |-> <<>>, tailIndex |-> <<>>,
               count |-> 0]

\* the body of the loop over the lines of the dictionary file
buildLine(b, line) ==
    IF startsWith(line, <<";", ";", ";">>) THEN b
    ELSE LET parts == split(line, <<" ", " ">>)
         IN IF Len(parts) < 2 THEN b
            ELSE LET rawWord == parts[1]
                     phonemeStr == parts[2]
                     isVariant == variantSuffixLen(rawWord) > 0
                     word == SubSeq(rawWord, 1,
                                    Len(rawWord) - variantSuffixLen(rawWord))
                 IN IF isVariant /\ hasKey(b.lexicon, word) THEN b
                    ELSE LET phonemes == split(phonemeStr, <<" ">>)
                             stress == getStress(phonemes)
                             entry == [p |-> phonemes, s |-> stress,
                                       c |-> Len(stress)]
                             perfKey == getPerfectRhymeKey(phonemes)
                         IN [lexicon      |-> put(b.lexicon, word, entry),
                             perfectIndex |->
                                 IF truthyStr(perfKey)
                                 THEN pushTo(b.perfectIndex, perfKey[1], word)
                                 ELSE b.perfectIndex,
                             tailIndex    |-> addTails(b.tailIndex, phonemes,
                                                       word, 1),
                             count        |-> b.count + 1]

RECURSIVE buildFrom(_, _)
buildFrom(b, lines) ==
    IF lines = <<>> THEN b ELSE buildFrom(buildLine(b, Head(lines)), Tail(lines))

\* the three artifacts written at the end of build()
build(lines) ==
    LET b == buildFrom(EmptyBuild, lines)
    IN [lexicon |-> b.lexicon, perfectIndex |-> b.perfectIndex,
        tailIndex |-> b.tailIndex]

----------------------------------------------------------------------------
(* The application: loadData and the engine it constructs                  *)

\* lines.forEach((line, index) => ...frequencyMap.set(word, index))
frequencyMapOf(text) ==
    LET lines == split(text, <<"\n">>)
        wordAt(i) == toUpperCase(trim(lines[i]))
        used == {i \in 1..Len(lines) : wordAt(i) # <<>>}
    IN [w \in {wordAt(i) : i \in used} |->
           (CHOOSE i \in used :
               /\ wordAt(i) = w
               /\ \A j \in used : wordAt(j) = w => j <= i) - 1]

RhymeEngine(lexicon, perfectIndex, tailIndex, frequencyMap) ==
    [lexicon |-> lexicon, perfectIndex |-> perfectIndex,
     tailIndex |-> tailIndex, frequencyMap |-> frequencyMap]

LoadingState == [loading |-> TRUE, engine |-> None, error |-> None]

\* loadData answering a failed load with an engine over empty data
loadDataEmptyOnFailure(files, text, failed) ==
    IF failed # None
    THEN [loading |-> FALSE,
          engine  |-> Some(RhymeEngine(<<>>, <<>>, <<>>, frequencyMapOf(text))),
          error   |-> None]
    ELSE [loading |-> FALSE,
          engine  |-> Some(RhymeEngine(files.lexicon, files.perfectIndex,
                                       files.tailIndex,
                                       frequencyMapOf(text))),
          error   |-> None]

\* the outcome of loadData: failed names the artifact whose fetch or parse
\* threw, if any; text is "" when frequency_list.txt is not served
loadData(files, text, failed) ==
    IF failed # None
    THEN [loading |-> FALSE, engine |-> None, error |-> failed]
    ELSE [loading |-> FALSE,
          engine  |-> Some(RhymeEngine(files.lexicon, files.perfectIndex,
                                       files.tailIndex,
                                       frequencyMapOf(text))),
          error   |-> None]

ArtifactNames == {"lexicon.json", "index_perfect.json", "index_tail.json"}

----------------------------------------------------------------------------
(* Inputs                                                                  *)

LineAt ==
    <<"A","T"," "," ","A","E","1"," ","T">>
LineHint ==
    <<"H","I","N","T"," "," ","H","H"," ","I","H","1"," ","N"," ","T">>
LineAunt ==
    <<"A","U","N","T"," "," ","A","E","1"," ","N"," ","T">>
LineAnt ==
    <<"A","N","T"," "," ","A","E","1"," ","N"," ","T">>
LineAbbey ==
    <<"A","B","B","E","Y"," "," ","A","E","1"," ","B"," ","I","Y","0">>
LineKing ==
    <<"K","I","N","G"," "," ","K"," ","I","H","1"," ","N","G">>
LineShin ==
    <<"S","H","I","N"," "," ","S","H"," ","I","H","1"," ","N">>
LineShing ==
    <<"S","H","I","N","G"," "," ","S","H">>

\* the dictionary lines of the checkRhyme runs; SHING is a vowel-less entry
RhymeLines == <<LineAnt, LineAunt, LineHint, LineKing, LineShin, LineShing>>

DictionaryLines == <<LineAt, LineHint, LineAunt, LineAnt, LineAbbey>>

\* raw lines for the runs of the build script: a variant and a second primary
\* line of ANT with other pronunciations, a lower-case word, a comment and a
\* line without the two-space separator
LineAntVariant ==
    <<"A","N","T","(","1",")"," "," ","A","A","1"," ","N"," ","T">>
LineAntAgain ==
    <<"A","N","T"," "," ","A","O","1"," ","N"," ","T">>
LineAbbeyLower ==
    <<"a","b","b","e","y"," "," ","A","E","1"," ","B"," ","I","Y","0">>
LineComment ==
    <<";",";",";"," ","A","N","T"," "," ","A","E","1">>
LineNoPhonemes ==
    <<"A","N","T"," ","A","E","1">>
\* a word alone, and a word followed by the separator and nothing else
LineWordOnly ==
    <<"A","N","T">>
LineAtEmpty ==
    <<"A","T"," "," ">>
BuildLines ==
    {LineAnt, LineAntVariant, LineAntAgain, LineAbbeyLower, LineHint, LineShing,
     LineComment, LineNoPhonemes, LineWordOnly, LineAtEmpty}

MaxRead == 3

\* inputs of the scoring functions: entries over a consonant, a stressed and
\* an unstressed vowel, and the entries of CAT, BAT and DOG
PhonemeT == <<"T">>
PhonemeAe1 == <<"A","E","1">>
PhonemeAh0 == <<"A","H","0">>
PhonemesCat == << <<"K">>, <<"A","E","1">>, <<"T">> >>
PhonemesBat == << <<"B">>, <<"A","E","1">>, <<"T">> >>
PhonemesDog == << <<"D">>, <<"A","O","1">>, <<"G">> >>

MaxPhonemes == 3
MaxStress == 3

\* the entry the build script makes of a phoneme sequence
entryFor(phonemes) ==
    [p |-> phonemes, s |-> getStress(phonemes), c |-> Len(getStress(phonemes))]

\* the contents of frequency_list.txt ("" also when the file is not served)
FreqEmpty == <<>>
FreqHintAunt ==
    <<"h","i","n","t","\n","a","u","n","t","\n">>
FreqAuntAt ==
    <<"A","u","n","t"," ","\n","\n","a","t">>
FreqTexts == {FreqEmpty, FreqHintAunt, FreqAuntAt}

\* the words a caller may type
WordAnt == <<"a","n","t">>
WordHint == <<"H","I","N","T">>
WordAntSp == <<"A","N","T"," ">>
WordAunt == <<"A","U","N","T">>
WordHintSp == <<" ","H","i","n","t">>
WordKing == <<"K","I","N","G">>
WordKin == <<"k","i","n">>
WordShin == <<"S","H","I","N">>
WordShing == <<"s","h","i","n","g">>
RhymeWords ==
    {WordAnt, WordAntSp, WordAunt, WordHintSp, WordKing, WordKin, WordShin,
     WordShing}

MaxLines == 4
MaxTargets == 2

\* the elements of a at the positions in S, in order
RECURSIVE pick(_, _, _)
pick(a, S, i) ==
    IF i > Len(a) THEN <<>>
    ELSE (IF i \in S THEN <<a[i]>> ELSE <<>>) \o pick(a, S, i + 1)

\* dictionary files: up to MaxLines lines of `lines`, in their order or reversed
Dictionaries(lines) ==
    LET sel == {S \in SUBSET (1..Len(lines)) : Cardinality(S) <= MaxLines}
    IN {pick(lines, S, 1) : S \in sel}
           \cup {pick(reverseSeq(lines), S, 1) : S \in sel}

RECURSIVE SeqsUpTo(_, _)
SeqsUpTo(S, n) ==
    IF n = 0 THEN {<<>>}
    ELSE LET shorter == SeqsUpTo(S, n - 1)
         IN shorter \cup {Append(q, x) : q \in shorter, x \in S}

Scheme(id, n, d) == [id |-> id, weight |-> Rat(n, d)]

SchemeLists ==
    { <<>>,
      <<Scheme("perfect", 1, 1)>>,
      <<Scheme("near", 1, 1)>>,
      <<Scheme("perfect", 1, 1), Scheme("near", 1, 1)>>,
      <<Scheme("stress", 1000, 1), Scheme("near", 2, 1)>>,
      <<Scheme("perfect", 1, 1), Scheme("near", 7, 10), Scheme("stress", 1, 2)>>,
      <<Scheme("vowel", 1, 1), Scheme("near", 2, 1)>>,
      <<Scheme("perfect", 2, 1), Scheme("near", 0, 1)>>,
      <<Scheme("near", 0, 1)>> }

Limits == {None, Some(1), Some(2)}

Requests ==
    [targets : SeqsUpTo({WordAnt, WordHint}, MaxTargets),
     schemes : SchemeLists,
     limit   : Limits]

\* the requests and words of the runs that interleave calls
CallRequests ==
    [targets : SeqsUpTo({WordAnt}, MaxTargets),
     schemes : { <<Scheme("near", 1, 1)>>,
                 <<Scheme("stress", 1000, 1), Scheme("near", 2, 1)>> },
     limit   : {None, Some(1)}]

CallWords == {WordAnt, WordHint}

NoCall == [op |-> "none"]
NoPin == [call |-> NoCall, others |-> FALSE]

----------------------------------------------------------------------------
(* The state machine                                                       *)

InitWith(lines, texts) ==
    /\ \E d \in Dictionaries(lines) :
           /\ building = [read |-> d, b |-> buildFrom(EmptyBuild, d)]
           /\ artifacts = build(d)
    /\ freqText \in texts
    /\ dictState = LoadingState
    /\ lastCall = NoCall
    /\ pinned = NoPin

\* App's useEffect on mount: loadData succeeds and constructs the engine
LoadData ==
    /\ dictState.loading
    /\ dictState' = loadData(artifacts, freqText, None)
    /\ UNCHANGED <<building, artifacts, freqText, lastCall, pinned>>

\* loadData when fetching or parsing one of the three artifacts throws
LoadDataFails ==
    /\ dictState.loading
    /\ \E name \in ArtifactNames :
           dictState' = loadData(artifacts, freqText, Some(name))
    /\ UNCHANGED <<building, artifacts, freqText, lastCall, pinned>>

Ready == dictState.engine # None
Engine == dictState.engine[1]

Idle == Ready /\ lastCall = NoCall

\* compare dropping the targets from this.lexicon instead of skipping them
CompareOverDroppingTargets(reqs) ==
    /\ Idle
    /\ \E req \in reqs :
           /\ lastCall' = [op |-> "compare", req |-> req,
                           res |-> compare(Engine, req)]
           /\ dictState' = [dictState EXCEPT !.engine = Some(
                  [Engine EXCEPT !.lexicon =
                      SelectSeq(Engine.lexicon,
                          LAMBDA kv : kv.k \notin
                              Range(normalizeTargets(req.targets)))])]
    /\ UNCHANGED <<building, artifacts, freqText, pinned>>

CompareOver(reqs) ==
    /\ Idle
    /\ \E req \in reqs :
           lastCall' = [op |-> "compare", req |-> req,
                        res |-> compare(Engine, req)]
    /\ UNCHANGED <<building, artifacts, freqText, dictState, pinned>>

Compare == CompareOver(Requests)

\* the caller has taken the result; the engine is idle again
Done ==
    /\ lastCall # NoCall
    /\ lastCall' = NoCall
    /\ UNCHANGED <<building, artifacts, freqText, dictState, pinned>>

\* checkRhyme noting its first word in this.frequencyMap as the most frequent
CheckRhymeOverNoting(words) ==
    /\ Idle
    /\ \E a \in words, b \in words :
           /\ lastCall' = [op |-> "checkRhyme", a |-> a, b |-> b,
                           res |-> checkRhyme(Engine, a, b)]
           /\ dictState' = [dictState EXCEPT !.engine = Some(
                  [Engine EXCEPT !.frequencyMap =
                      [w \in DOMAIN Engine.frequencyMap \cup {trim(toUpperCase(a))} |->
                          IF w = trim(toUpperCase(a)) THEN 0
                          ELSE Engine.frequencyMap[w]]])]
    /\ UNCHANGED <<building, artifacts, freqText, pinned>>

CheckRhymeOver(words) ==
    /\ Idle
    /\ \E a \in words, b \in words :
           lastCall' = [op |-> "checkRhyme", a |-> a, b |-> b,
                        res |-> checkRhyme(Engine, a, b)]
    /\ UNCHANGED <<building, artifacts, freqText, dictState, pinned>>

CheckRhyme == CheckRhymeOver(RhymeWords)

\* the interleaved runs: any call; when it is done the observer may keep a
\* compare call for later comparison, and notes the calls made after it
CompareSome == CompareOver(CallRequests)
CheckRhymeSome == CheckRhymeOver(CallWords)

DoneKeeping ==
    /\ lastCall # NoCall
    /\ lastCall' = NoCall
    /\ \/ lastCall.op = "compare" /\ pinned' = [call |-> lastCall, others |-> FALSE]
       \/ pinned.call # NoCall /\ pinned' = [pinned EXCEPT !.others = TRUE]
       \/ pinned.call = NoCall /\ pinned' = pinned
    /\ UNCHANGED <<building, artifacts, freqText, dictState>>

Init == InitWith(DictionaryLines, FreqTexts)

Next == LoadData \/ LoadDataFails \/ Compare \/ Done

Spec == Init /\ [][Next]_vars

InitRhyme == InitWith(RhymeLines, {FreqEmpty})

NextRhyme == LoadData \/ LoadDataFails \/ CheckRhyme \/ Done

SpecRhyme == InitRhyme /\ [][NextRhyme]_vars

InitCalls == InitWith(DictionaryLines, {FreqHintAunt})

NextCalls == LoadData \/ LoadDataFails \/ CompareSome \/ CheckRhymeSome \/ DoneKeeping

SpecCalls == InitCalls /\ [][NextCalls]_vars

\* The build script on its own: it reads the dictionary file line by line and
\* writes the artifacts when the file ends.
NoArtifacts == None

InitBuild ==
    /\ building = [read |-> <<>>, b |-> EmptyBuild]
    /\ artifacts = NoArtifacts
    /\ freqText = FreqEmpty
    /\ dictState = LoadingState
    /\ lastCall = NoCall
    /\ pinned = NoPin

\* one iteration of `for await (const line of rl)`
ReadLine ==
    /\ artifacts = NoArtifacts
    /\ Len(building.read) < MaxRead
    /\ \E line \in BuildLines :
           building' = [read |-> Append(building.read, line),
                        b    |-> buildLine(building.b, line)]
    /\ UNCHANGED <<artifacts, freqText, dictState, lastCall, pinned>>

\* the end of the file: the three artifacts are written
WriteArtifacts ==
    /\ artifacts = NoArtifacts
    /\ artifacts' = [lexicon      |-> building.b.lexicon,
                     perfectIndex |-> building.b.perfectIndex,
                     tailIndex    |-> building.b.tailIndex]
    /\ UNCHANGED <<building, freqText, dictState, lastCall, pinned>>

NextBuild == ReadLine \/ WriteArtifacts

SpecBuild == InitBuild /\ [][NextBuild]_vars

\* The scoring functions and levenshtein called on their own.
ScoreEntries ==
    {entryFor(p) : p \in SeqsUpTo({PhonemeT, PhonemeAe1, PhonemeAh0}, MaxPhonemes)
                          \cup {PhonemesCat, PhonemesBat, PhonemesDog}}
NearLens == {1, 2, 3}
StressStrings == SeqsUpTo({"0", "1", "2"}, MaxStress)

InitScore == InitBuild

ScoreNear ==
    /\ lastCall = NoCall
    /\ \E c \in ScoreEntries, t \in ScoreEntries, n \in NearLens :
           lastCall' = [op |-> "scoreNear", c |-> c, t |-> t, n |-> n,
                        res |-> scoreNearN(c, t, n)]
    /\ UNCHANGED <<building, artifacts, freqText, dictState, pinned>>

ScorePerfect ==
    /\ lastCall = NoCall
    /\ \E c \in ScoreEntries, t \in ScoreEntries :
           lastCall' = [op |-> "scorePerfect", c |-> c, t |-> t,
                        res |-> scorePerfect(c, t)]
    /\ UNCHANGED <<building, artifacts, freqText, dictState, pinned>>

ScoreStress ==
    /\ lastCall = NoCall
    /\ \E c \in ScoreEntries, t \in ScoreEntries :
           lastCall' = [op |-> "scoreStress", c |-> c, t |-> t,
                        res |-> scoreStress(c, t)]
    /\ UNCHANGED <<building, artifacts, freqText, dictState, pinned>>

Levenshtein ==
    /\ lastCall = NoCall
    /\ \E s \in StressStrings, t \in StressStrings :
           lastCall' = [op |-> "levenshtein", s |-> s, t |-> t,
                        res |-> levenshtein(s, t)]
    /\ UNCHANGED <<building, artifacts, freqText, dictState, pinned>>

NextScore == ScoreNear \/ ScorePerfect \/ ScoreStress \/ Levenshtein \/ Done

SpecScore == InitScore /\ [][NextScore]_vars

----------------------------------------------------------------------------
(* Index-assisted candidate lookup, as the architecture describes it: the  *)
(* scan is restricted to the words listed under a PerfectIndex or          *)
(* TailIndex key of some resolved target.                                  *)

RECURSIVE tailKeys(_, _)
tailKeys(phonemes, i) ==
    IF i > Len(TailLens) THEN {}
    ELSE (IF Len(phonemes) >= TailLens[i]
          THEN {join(sliceLast(phonemes, TailLens[i]), <<" ">>)} ELSE {})
         \cup tailKeys(phonemes, i + 1)

wordsUnder(index, key) ==
    IF hasKey(index, key) THEN Range(get(index, key)[1]) ELSE {}

prunedWords(engine, targetEntries) ==
    UNION { (IF truthyStr(getPerfectRhymeKey(targetEntries[i].p))
             THEN wordsUnder(engine.perfectIndex,
                             getPerfectRhymeKey(targetEntries[i].p)[1])
             ELSE {})
            \cup UNION { wordsUnder(engine.tailIndex, k) :
                         k \in tailKeys(targetEntries[i].p, 1) }
          : i \in 1..Len(targetEntries) }

comparePruned(engine, req) ==
    LET normalizedTargets == normalizeTargets(req.targets)
        targetEntries == resolveTargets(engine.lexicon, normalizedTargets)
        near == prunedWords(engine, targetEntries)
        restricted == [engine EXCEPT
                          !.lexicon = SelectSeq(engine.lexicon,
                                                LAMBDA kv : kv.k \in near)]
    IN IF Len(targetEntries) = 0 THEN [candidates |-> <<>>]
       ELSE LET candidates == scanLexicon(restricted, normalizedTargets,
                                          targetEntries, req.schemes, 1)
            IN [candidates |-> sliceTo(sortCandidates(candidates), limitOf(req))]

----------------------------------------------------------------------------
(* Properties of compare                                                   *)

Compared == lastCall.op = "compare"
Result == lastCall.res.candidates

\* the words of the lexicon that are not a canonicalized target of the call
NonTargets ==
    {w \in Range(keysOf(Engine.lexicon)) :
        w \notin Range(normalizeTargets(lastCall.req.targets))}

\* the score the call's request gives a lexicon word
scoreOf(w) ==
    scoreCandidate(w, get(Engine.lexicon, w)[1],
                   resolveTargets(Engine.lexicon,
                                  normalizeTargets(lastCall.req.targets)),
                   lastCall.req.schemes).totalScore

NoiseFloor == <<3, 10>>
Tolerance == <<1, 1000>>

\* C1: every candidate compare returns has totalScore >= 0.3
C1_NoiseFloor ==
    Compared =>
        \A i \in 1..Len(Result) : RLe(NoiseFloor, Result[i].totalScore)

\* C1 witness: a call that returned candidates while leaving out a word
\* whose score is positive but below the floor
C1_Witness ==
    /\ Compared
    /\ Result # <<>>
    /\ \E w \in NonTargets :
           /\ RLt(RZero, scoreOf(w))
           /\ RLt(scoreOf(w), NoiseFloor)
           /\ \A i \in 1..Len(Result) : Result[i].word # w

\* C2: in a compare result no later candidate scores more than 0.001 above
\* an earlier one
C2_SortedByScore ==
    Compared =>
        \A i, j \in 1..Len(Result) :
            i < j => ~RLt(Tolerance,
                          RSub(Result[j].totalScore, Result[i].totalScore))

\* the rank of a word: its zero-based position in the frequency list, or the
\* sentinel 999999 when the list does not have it
trueRank(w) ==
    IF w \in DOMAIN Engine.frequencyMap THEN Engine.frequencyMap[w] ELSE 999999

\* C3: among candidates whose scores are within 0.001 of each other the
\* earlier one has the lower or equal frequency rank
C3_TieBreakByFrequency ==
    Compared =>
        \A i, j \in 1..Len(Result) :
            (i < j /\ RLe(RAbs(RSub(Result[j].totalScore, Result[i].totalScore)),
                          Tolerance))
                => trueRank(Result[i].word) <= trueRank(Result[j].word)

NoStress ==
    \A i \in 1..Len(lastCall.req.schemes) : lastCall.req.schemes[i].id # "stress"

RECURSIVE weightOf(_, _)
weightOf(schemes, ids) ==
    IF schemes = <<>> THEN RZero
    ELSE RAdd(IF Head(schemes).id \in ids THEN Head(schemes).weight ELSE RZero,
              weightOf(Tail(schemes), ids))

nearWeight == weightOf(lastCall.req.schemes, {"near"})
totalWeight ==
    weightOf(lastCall.req.schemes,
             {lastCall.req.schemes[i].id : i \in 1..Len(lastCall.req.schemes)})

\* the near schemes carry less than 9/10 of the total weight, or there is none
NearBelowFloor ==
    \/ totalWeight = RZero
    \/ RLt(RMul(<<10, 1>>, nearWeight), RMul(<<9, 1>>, totalWeight))

\* C5 as claimed: without the Stress scheme, the index-restricted candidate
\* set gives the same ranked result as the full scan
C5_PruningEquivalent ==
    (Compared /\ NoStress) => comparePruned(Engine, lastCall.req) = lastCall.res

\* C5 as amended: the same, for requests in which near carries less than
\* 9/10 of the total scheme weight
C5_PruningEquivalentBelowFloor ==
    (Compared /\ NoStress /\ NearBelowFloor)
        => comparePruned(Engine, lastCall.req) = lastCall.res

\* C5 witness: such a request with a weighted near scheme, candidates
\* returned, and a positively scored word that the indices leave out
C5_Witness ==
    /\ Compared /\ NoStress /\ NearBelowFloor
    /\ RLt(RZero, nearWeight)
    /\ Result # <<>>
    /\ \E w \in NonTargets :
           /\ RLt(RZero, scoreOf(w))
           /\ w \notin prunedWords(Engine,
                          resolveTargets(Engine.lexicon,
                              normalizeTargets(lastCall.req.targets)))

\* the requested targets that are lexicon words, in request order
knownTargets ==
    SelectSeq(lastCall.req.targets,
              LAMBDA t : hasKey(Engine.lexicon, toUpperCase(t)))

\* C10: compare answers as if the out-of-vocabulary targets had not been
\* given, and with no candidates when no target is in the lexicon
C10_OovTargetsDropped ==
    Compared =>
        /\ lastCall.res = compare(Engine, [lastCall.req EXCEPT
                                              !.targets = knownTargets])
        /\ knownTargets = <<>> => Result = <<>>

\* C10 witness: a call mixing a known and an unknown target that returned
\* candidates
C10_Witness ==
    /\ Compared
    /\ knownTargets # <<>>
    /\ Len(knownTargets) < Len(lastCall.req.targets)
    /\ Result # <<>>

----------------------------------------------------------------------------
(* Properties of repeated calls                                            *)

\* C4: a compare call returns what an earlier compare call with the same
\* request returned, whatever calls were made in between
C4_Deterministic ==
    (Compared /\ pinned.call # NoCall /\ pinned.call.req = lastCall.req)
        => lastCall.res = pinned.call.res

\* C4 witness: a request repeated after other calls, ranking several candidates
C4_Witness ==
    /\ Compared
    /\ pinned.call # NoCall
    /\ pinned.call.req = lastCall.req
    /\ pinned.others
    /\ Len(Result) >= 2

----------------------------------------------------------------------------
(* Properties of checkRhyme                                                *)

Checked == lastCall.op = "checkRhyme"

\* a word as the claims canonicalize it
canon(w) == toUpperCase(trim(w))

isKey(w) == hasKey(Engine.lexicon, w)
ingOf(w) == SubSeq(w, 1, Len(w) - 2) \o <<"I", "N", "G">>

\* the word is not a key, ends in "IN", and its "ING" spelling is a key
fallsBack(w) == ~isKey(w) /\ endsWith(w, <<"I", "N">>) /\ isKey(ingOf(w))

resolves(w) == isKey(w) \/ fallsBack(w)
entryOf(w) == IF isKey(w) THEN get(Engine.lexicon, w)[1]
              ELSE get(Engine.lexicon, ingOf(w))[1]

vowelPositions(p) == {i \in 1..Len(p) : \E j \in 1..Len(p[i]) : p[i][j] \in DigitChars}
stressedPositions(p) == {i \in 1..Len(p) : \E j \in 1..Len(p[i]) : p[i][j] \in {"1", "2"}}
Least(S) == CHOOSE x \in S : \A y \in S : x <= y
Greatest(S) == CHOOSE x \in S : \A y \in S : x >= y

\* (a) both have a vowel phoneme and agree from their last vowel to the end
samePerfectKey(p, q) ==
    /\ vowelPositions(p) # {} /\ vowelPositions(q) # {}
    /\ SubSeq(p, Greatest(vowelPositions(p)), Len(p))
           = SubSeq(q, Greatest(vowelPositions(q)), Len(q))

\* (b) the last two phonemes of both are the same
lastTwoMatch(p, q) ==
    /\ Len(p) >= 2 /\ Len(q) >= 2
    /\ p[Len(p)] = q[Len(q)]
    /\ p[Len(p) - 1] = q[Len(q) - 1]

\* (c) the first phoneme with stress digit 1 or 2 is the same in both
sameStressedVowel(p, q) ==
    /\ stressedPositions(p) # {} /\ stressedPositions(q) # {}
    /\ p[Least(stressedPositions(p))] = q[Least(stressedPositions(q))]

rhymes(e, f) ==
    samePerfectKey(e.p, f.p) \/ lastTwoMatch(e.p, f.p) \/ sameStressedVowel(e.p, f.p)

CanonA == canon(lastCall.a)
CanonB == canon(lastCall.b)

\* C6: for two different words that both resolve, checkRhyme is true exactly
\* when the entries share the perfect key, or their last two phonemes, or
\* their first stressed vowel
C6_CheckRhymeIff ==
    (Checked /\ CanonA # CanonB /\ resolves(CanonA) /\ resolves(CanonB))
        => (lastCall.res <=> rhymes(entryOf(CanonA), entryOf(CanonB)))

\* C6 witness: a pair judged a rhyme on the last two phonemes alone
C6_Witness ==
    /\ Checked /\ CanonA # CanonB /\ resolves(CanonA) /\ resolves(CanonB)
    /\ lastCall.res
    /\ lastTwoMatch(entryOf(CanonA).p, entryOf(CanonB).p)
    /\ ~samePerfectKey(entryOf(CanonA).p, entryOf(CanonB).p)
    /\ ~sameStressedVowel(entryOf(CanonA).p, entryOf(CanonB).p)

\* C7: checkRhyme is true whenever its arguments are the same word after
\* canonicalization
C7_SameWord == (Checked /\ CanonA = CanonB) => lastCall.res

\* C7 witness: two spellings of one word that is not in the lexicon
C7_Witness ==
    /\ Checked /\ CanonA = CanonB /\ lastCall.a # lastCall.b
    /\ ~resolves(CanonA)
    /\ lastCall.res

\* C8: an argument X+"IN" that falls back is judged exactly as
\* X+"ING" would be, in either position
C8_InAsIng ==
    Checked =>
        /\ fallsBack(CanonB) => lastCall.res = checkRhyme(Engine, lastCall.a, ingOf(CanonB))
        /\ fallsBack(CanonA) => lastCall.res = checkRhyme(Engine, ingOf(CanonA), lastCall.b)

\* the entry has a vowel phoneme or at least two phonemes
ordinaryEntry(e) == vowelPositions(e.p) # {} \/ Len(e.p) >= 2

\* C8, outside the failing case: the same holds when the entry of X+"ING"
\* has a vowel phoneme or at least two phonemes
C8_InAsIngOrdinary ==
    Checked =>
        /\ (fallsBack(CanonB) /\ ordinaryEntry(entryOf(CanonB)))
               => lastCall.res = checkRhyme(Engine, lastCall.a, ingOf(CanonB))
        /\ (fallsBack(CanonA) /\ ordinaryEntry(entryOf(CanonA)))
               => lastCall.res = checkRhyme(Engine, ingOf(CanonA), lastCall.b)

\* C8, the case of the test: X+"ING" against its g-dropped spelling, judged a rhyme
C8_IngAgainstIn ==
    /\ Checked
    /\ fallsBack(CanonB) /\ ordinaryEntry(entryOf(CanonB))
    /\ CanonA = ingOf(CanonB)
    /\ lastCall.res

\* C9: with an argument that resolves neither directly nor by the fallback,
\* checkRhyme of two different words is false; two lexicon words are judged
\* on their own entries
C9_UnresolvedIsFalse ==
    (Checked /\ CanonA # CanonB) =>
        /\ (~resolves(CanonA) \/ ~resolves(CanonB)) => ~lastCall.res
        /\ (isKey(CanonA) /\ isKey(CanonB)) =>
               (lastCall.res <=> rhymes(get(Engine.lexicon, CanonA)[1],
                                        get(Engine.lexicon, CanonB)[1]))

\* C9 witness: a word ending in "IN" with neither spelling in the lexicon,
\* against a lexicon word
C9_Witness ==
    /\ Checked /\ CanonA # CanonB
    /\ endsWith(CanonB, <<"I", "N">>) /\ ~resolves(CanonB)
    /\ isKey(CanonA)
    /\ ~lastCall.res

\* C9 second witness state: a lexicon word whose "ING" spelling is also a
\* lexicon word
C9_OwnEntry ==
    /\ Checked /\ CanonA # CanonB
    /\ isKey(CanonA) /\ isKey(CanonB)
    /\ endsWith(CanonA, <<"I", "N">>) /\ isKey(ingOf(CanonA))
    /\ lastCall.res

----------------------------------------------------------------------------
(* More properties of compare                                              *)

Targets == lastCall.req.targets
TargetEntries == resolveTargets(Engine.lexicon, normalizeTargets(Targets))

\* C11: a call with a lexicon word given twice as the targets returns what
\* the call with that word given once returns
C11_DuplicateTarget ==
    (/\ Compared
     /\ Len(Targets) = 2 /\ Targets[1] = Targets[2]
     /\ hasKey(Engine.lexicon, toUpperCase(Targets[1])))
        => lastCall.res = compare(Engine, [lastCall.req EXCEPT
                                              !.targets = <<Targets[1]>>])

\* C11 witness: such a call returning a candidate with a fractional score
C11_Witness ==
    /\ Compared
    /\ Len(Targets) = 2 /\ Targets[1] = Targets[2]
    /\ hasKey(Engine.lexicon, toUpperCase(Targets[1]))
    /\ \E i \in 1..Len(Result) : RLt(Result[i].totalScore, ROne)

\* the perfect scheme, and no other, has positive weight
PerfectOnly ==
    /\ \E i \in 1..Len(lastCall.req.schemes) :
           /\ lastCall.req.schemes[i].id = "perfect"
           /\ RLt(RZero, lastCall.req.schemes[i].weight)
    /\ \A i \in 1..Len(lastCall.req.schemes) :
           lastCall.req.schemes[i].id # "perfect"
               => lastCall.req.schemes[i].weight = RZero

\* the word has the perfect rhyme key of the single resolved target
sharesKey(w) == samePerfectKey(get(Engine.lexicon, w)[1].p, TargetEntries[1].p)

\* C12: with one resolved target and perfect alone weighted, a non-target
\* word with the target's perfect key scores 1 and comes before every
\* returned candidate whose key differs
C12_PerfectRanksFirst ==
    (Compared /\ Len(TargetEntries) = 1 /\ PerfectOnly) =>
        \A w \in NonTargets :
            sharesKey(w) =>
                /\ scoreOf(w) = ROne
                /\ \A i \in 1..Len(Result) :
                       ~sharesKey(Result[i].word)
                           => \E j \in 1..(i - 1) : Result[j].word = w

\* C12 witness: a word with the target's key returned first with score 1,
\* in a lexicon that has a non-target word with another key
C12_Witness ==
    /\ Compared /\ Len(TargetEntries) = 1 /\ PerfectOnly
    /\ Result # <<>>
    /\ Result[1].word \in NonTargets
    /\ sharesKey(Result[1].word)
    /\ Result[1].totalScore = ROne
    /\ \E w \in NonTargets : ~sharesKey(w)

\* the full ranked list of the call and the number of words at or above the floor
FullRanked ==
    sortCandidates(scanLexicon(Engine, normalizeTargets(Targets), TargetEntries,
                               lastCall.req.schemes, 1))
AboveFloor == {w \in NonTargets : RLe(NoiseFloor, scoreOf(w))}
PositiveLimit == lastCall.req.limit = None \/ lastCall.req.limit[1] > 0
EffectiveLimit == IF lastCall.req.limit = None THEN 50 ELSE lastCall.req.limit[1]

\* C13: compare returns the first min(L, K) entries of the full ranked list,
\* never more than L, and the result for a smaller limit is a prefix of it
C13_Limit ==
    (Compared /\ PositiveLimit) =>
        \A K \in {Cardinality(AboveFloor)}, res \in {Result} :
           /\ res = SubSeq(FullRanked, 1, Min(EffectiveLimit, K))
           /\ Len(res) <= EffectiveLimit
           /\ \A l \in 1..Min(EffectiveLimit, K + 1) :
                  compare(Engine, [lastCall.req EXCEPT !.limit = Some(l)]).candidates
                      = SubSeq(res, 1, Min(l, Len(res)))

\* C13 witness: a limit of 1 cutting a ranked list of at least two
C13_Witness ==
    /\ Compared
    /\ lastCall.req.limit = Some(1)
    /\ Cardinality(AboveFloor) >= 2
    /\ Len(Result) = 1

\* C14: no returned word is the upper-cased form of a requested target
C14_TargetsExcluded ==
    Compared =>
        \A i \in 1..Len(Result) :
            \A j \in 1..Len(Targets) : Result[i].word # toUpperCase(Targets[j])

\* C14 witness: a target given in lower case that is a lexicon word, in a
\* call that returned candidates
C14_Witness ==
    /\ Compared
    /\ Result # <<>>
    /\ \E j \in 1..Len(Targets) :
           /\ Targets[j] # toUpperCase(Targets[j])
           /\ hasKey(Engine.lexicon, toUpperCase(Targets[j]))

----------------------------------------------------------------------------
(* The engine's data across calls                                          *)

\* the engine as loadData constructed it from the artifacts and the
\* frequency list
FreshEngine == loadData(artifacts, freqText, None).engine[1]

\* C15: the engine's lexicon, indices and frequency map stay what they were
\* at construction, and every call returns what it returns on that engine
C15_EngineUnchanged ==
    Ready =>
        /\ Engine = FreshEngine
        /\ Compared => lastCall.res = compare(FreshEngine, lastCall.req)
        /\ Checked => lastCall.res = checkRhyme(FreshEngine, lastCall.a, lastCall.b)

\* C15 witness: a checkRhyme call judged a rhyme, made after a compare call
\* and further calls
C15_Witness ==
    /\ Checked
    /\ pinned.call # NoCall
    /\ pinned.others
    /\ lastCall.a # lastCall.b
    /\ lastCall.res

----------------------------------------------------------------------------
(* Properties of the build script                                          *)

Read == building.read
Built == building.b

\* the line is neither a comment nor without the phoneme field
carriesWord(line) ==
    /\ ~startsWith(line, <<";", ";", ";">>)
    /\ Len(split(line, <<" ", " ">>)) >= 2

\* the orthographic word of a line: its first field without a "(digits)" suffix
wordOfLine(line) ==
    LET rawWord == split(line, <<" ", " ">>)[1]
    IN SubSeq(rawWord, 1, Len(rawWord) - variantSuffixLen(rawWord))

\* the entry a line describes
entryOfLine(line) ==
    LET phonemes == split(split(line, <<" ", " ">>)[2], <<" ">>)
    IN [p |-> phonemes, s |-> getStress(phonemes), c |-> Len(getStress(phonemes))]

\* the first line read that carries the word
firstLineOf(w) ==
    Read[CHOOSE i \in 1..Len(Read) :
            /\ carriesWord(Read[i]) /\ wordOfLine(Read[i]) = w
            /\ \A j \in 1..(i - 1) :
                   ~(carriesWord(Read[j]) /\ wordOfLine(Read[j]) = w)]

\* what the build script has built after the first n lines read
builtAfter(n) == buildFrom(EmptyBuild, SubSeq(Read, 1, n))

sameData(b1, b2) ==
    /\ b1.lexicon = b2.lexicon
    /\ b1.perfectIndex = b2.perfectIndex
    /\ b1.tailIndex = b2.tailIndex

\* line number n carries a word the lexicon already had when it was read
repeatsWord(n) ==
    /\ carriesWord(Read[n])
    /\ hasKey(builtAfter(n - 1).lexicon, wordOfLine(Read[n]))

\* C16: each lexicon entry is the one of the first line read for its word, and
\* a later line for a word already present changed neither the lexicon nor
\* the indices
C16_FirstPronunciationWins ==
    /\ \A i \in 1..Len(Built.lexicon) :
           Built.lexicon[i].v = entryOfLine(firstLineOf(Built.lexicon[i].k))
    /\ \A n \in 1..Len(Read) :
           repeatsWord(n) => sameData(builtAfter(n), builtAfter(n - 1))

\* C16, the variant lines alone: a line with a "(digits)" suffix for a word
\* already present changed nothing
C16_VariantSkipped ==
    \A n \in 1..Len(Read) :
        (repeatsWord(n) /\ variantSuffixLen(split(Read[n], <<" ", " ">>)[1]) > 0)
            => sameData(builtAfter(n), builtAfter(n - 1))

\* C16, the case that holds: a variant line read after the primary line of
\* its word, with another pronunciation
C16_VariantAfterPrimary ==
    \E n \in 2..Len(Read) :
        /\ repeatsWord(n)
        /\ variantSuffixLen(split(Read[n], <<" ", " ">>)[1]) > 0
        /\ entryOfLine(Read[n]) # entryOfLine(firstLineOf(wordOfLine(Read[n])))

\* the words listed in an index
listedIn(index) == UNION {Range(index[i].v) : i \in 1..Len(index)}

\* C17: every lexicon key and every word listed in the indices is in upper
\* case, and every lexicon word resolves as a compare target and as a
\* checkRhyme argument
C17_KeysUpperCased ==
    /\ \A w \in Range(keysOf(Built.lexicon))
             \cup listedIn(Built.perfectIndex) \cup listedIn(Built.tailIndex) :
           w = toUpperCase(w)
    /\ \A w \in Range(keysOf(Built.lexicon)) :
           /\ resolveTargets(Built.lexicon, normalizeTargets(<<w>>)) # <<>>
           /\ resolve(Built.lexicon, trim(toUpperCase(w))) # None

\* C17, the words the dictionary gives in upper case: they are stored as given
\* and resolve
C17_UpperCaseKept ==
    \A n \in 1..Len(Read) :
        (carriesWord(Read[n]) /\ wordOfLine(Read[n]) = toUpperCase(wordOfLine(Read[n])))
            => /\ hasKey(Built.lexicon, wordOfLine(Read[n]))
               /\ resolveTargets(Built.lexicon,
                                 normalizeTargets(<<wordOfLine(Read[n])>>)) # <<>>

----------------------------------------------------------------------------
(* Properties of the scores computed within compare                        *)

Schemes == lastCall.req.schemes
KnownIds == {"perfect", "near", "stress"}
LexiconWords == Range(keysOf(Engine.lexicon))

\* what scoreCandidate returns for a lexicon word under the call's request
scored(w) ==
    scoreCandidate(w, get(Engine.lexicon, w)[1], TargetEntries, Schemes)

\* the weighted sum of the scores of the schemes of known kind
RECURSIVE knownWeighted(_, _)
knownWeighted(schemes, scores) ==
    IF schemes = <<>> THEN RZero
    ELSE RAdd(IF Head(schemes).id \in KnownIds
              THEN RMul(scores[Head(schemes).id], Head(schemes).weight)
              ELSE RZero,
              knownWeighted(Tail(schemes), scores))

\* C18: a scheme of unknown kind scores 0 for every word, and the total is the
\* weighted sum of the other schemes' scores over the total weight
C18_UnknownSchemeZero ==
    Compared =>
        /\ \A w \in LexiconWords :
               \A r \in {scored(w)} :
                   /\ \A i \in 1..Len(Schemes) :
                          Schemes[i].id \notin KnownIds
                              => r.schemeScores[Schemes[i].id] = RZero
                   /\ r.totalScore =
                          IF RLt(RZero, totalWeight)
                          THEN RDiv(knownWeighted(Schemes, r.schemeScores),
                                    totalWeight)
                          ELSE RZero
        /\ \A k \in 1..Len(Result) :
               \A i \in 1..Len(Schemes) :
                   Schemes[i].id \notin KnownIds
                       => Result[k].schemeScores[Schemes[i].id] = RZero

\* C18 witness: a request with a scheme of unknown kind returning a candidate
\* that the near scheme scores 1, for a total below 1
C18_Witness ==
    /\ Compared
    /\ \E i \in 1..Len(Schemes) : Schemes[i].id \notin KnownIds
    /\ \E k \in 1..Len(Result) :
           /\ Result[k].schemeScores["near"] = ROne
           /\ RLt(Result[k].totalScore, ROne)

inUnitInterval(x) == RLe(RZero, x) /\ RLe(x, ROne)

\* C19: with at least one resolved target, every per-scheme score and total
\* score of a lexicon word, and every returned total, is between 0 and 1
C19_ScoresInUnitInterval ==
    (Compared /\ TargetEntries # <<>>) =>
        /\ \A w \in LexiconWords :
               \A r \in {scored(w)} :
                   /\ inUnitInterval(r.totalScore)
                   /\ \A id \in DOMAIN r.schemeScores :
                          inUnitInterval(r.schemeScores[id])
        /\ \A k \in 1..Len(Result) : inUnitInterval(Result[k].totalScore)

\* C19 witness: three weighted schemes, two of them with fractional weights,
\* and a returned total strictly between 0 and 1
C19_Witness ==
    /\ Compared /\ TargetEntries # <<>>
    /\ Len(Schemes) = 3
    /\ \E i \in 1..Len(Schemes) : RLt(Schemes[i].weight, ROne)
    /\ \E k \in 1..Len(Result) :
           /\ RLt(RZero, Result[k].totalScore)
           /\ RLt(Result[k].totalScore, ROne)

\* C20: once loading has ended there is either an error and no engine, or an
\* engine over the artifacts as written and no error
C20_LoadFailureIsError ==
    ~dictState.loading =>
        \/ /\ dictState.engine = None
           /\ dictState.error # None
        \/ /\ dictState.engine # None
           /\ dictState.error = None
           /\ Engine.lexicon = artifacts.lexicon
           /\ Engine.perfectIndex = artifacts.perfectIndex
           /\ Engine.tailIndex = artifacts.tailIndex

\* C20 witness: the load of a non-empty lexicon's artifacts failed on the
\* tail index
C20_Witness ==
    /\ ~dictState.loading
    /\ artifacts.lexicon # <<>>
    /\ dictState.engine = None
    /\ dictState.error = Some("index_tail.json")

----------------------------------------------------------------------------
(* The aggregation in scoreCandidate                                       *)

\* the sum of the first n elements of a sequence of numbers
RECURSIVE RSumTo(_, _)
RSumTo(xs, n) == IF n = 0 THEN RZero ELSE RAdd(xs[n], RSumTo(xs, n - 1))

RSum(xs) == RSumTo(xs, Len(xs))

\* the scores of an entry against each of the target entries under one scheme
perTarget(id, e, te) ==
    [j \in 1..Len(te) |-> schemeTargetScore(id, e, te[j])]

meanOverTargets(id, e, te) ==
    \*  sum / count
    RDivInt(RSum(perTarget(id, e, te)), Len(te))

leastOverTargets(id, e, te) ==
    CHOOSE x \in Range(perTarget(id, e, te)) :
        \A y \in Range(perTarget(id, e, te)) : RLe(x, y)

\* C21: each scheme's score is the arithmetic mean of the per-target scores,
\* and the total is sum(score * weight) / sum(weight), or 0 when the weights
\* sum to 0
C21_MeanAndWeightedMean ==
    Compared =>
        \A te \in {TargetEntries} :
            te # <<>> =>
                \A n \in 1..Len(Engine.lexicon) :
                    \A e \in {Engine.lexicon[n].v} :
                    \A r \in {scoreCandidate(Engine.lexicon[n].k, e, te, Schemes)} :
                        /\ \A i \in 1..Len(Schemes) :
                               r.schemeScores[Schemes[i].id]
                                   = meanOverTargets(Schemes[i].id, e, te)
                        /\ \A weights \in {[i \in 1..Len(Schemes) |->
                                              Schemes[i].weight]},
                              products \in {[i \in 1..Len(Schemes) |->
                                               RMul(r.schemeScores[Schemes[i].id],
                                                    Schemes[i].weight)]} :
                               r.totalScore =
                                   IF RLt(RZero, RSum(weights))
                                   THEN RDiv(RSum(products), RSum(weights))
                                   ELSE RZero

\* C21 witness: two resolved targets and a returned word whose mean over them
\* under the near scheme is above its least score
C21_Witness ==
    /\ Compared
    /\ Len(TargetEntries) = 2
    /\ \E k \in 1..Len(Result) :
           \E e \in {get(Engine.lexicon, Result[k].word)[1]} :
               /\ "near" \in DOMAIN Result[k].schemeScores
               /\ Result[k].schemeScores["near"]
                      = meanOverTargets("near", e, TargetEntries)
               /\ RLt(leastOverTargets("near", e, TargetEntries),
                      meanOverTargets("near", e, TargetEntries))

----------------------------------------------------------------------------
(* Properties of the scoring functions                                     *)

\* the phonemes at position i counted from the end
fromEnd(p, i) == p[Len(p) - i + 1]

\* the number of equal phonemes from the last position inward up to the first
\* mismatch, within the first `most` positions
suffixMatches(c, t, most) ==
    Greatest({k \in 0..most : \A i \in 1..k : fromEnd(c, i) = fromEnd(t, i)})

\* C22: scoreNear(c, t, n) is m / n for m the consecutive equal phonemes from
\* the end, at most min(n, len(c), len(t)); it is 0 when the last phonemes
\* differ or a sequence is empty
C22_ScoreNear ==
    lastCall.op = "scoreNear" =>
        \A c \in {lastCall.c.p}, t \in {lastCall.t.p} :
            /\ lastCall.res
                   = Rat(suffixMatches(c, t, Min(lastCall.n, Min(Len(c), Len(t)))),
                         lastCall.n)
            /\ (c = <<>> \/ t = <<>> \/ fromEnd(c, 1) # fromEnd(t, 1))
                   => lastCall.res = RZero

\* C22 witness: three phonemes each, equal at the last and the first position
\* and different in between, scoring 1/3
C22_Witness ==
    /\ lastCall.op = "scoreNear"
    /\ lastCall.n = 3
    /\ Len(lastCall.c.p) = 3 /\ Len(lastCall.t.p) = 3
    /\ lastCall.c.p[3] = lastCall.t.p[3]
    /\ lastCall.c.p[2] # lastCall.t.p[2]
    /\ lastCall.c.p[1] = lastCall.t.p[1]
    /\ lastCall.res = <<1, 3>>

RECURSIVE editDistance(_, _)
editDistance(s, t) ==
    IF s = <<>> THEN Len(t)
    ELSE IF t = <<>> THEN Len(s)
    ELSE Min3(editDistance(Tail(s), t) + 1,
              editDistance(s, Tail(t)) + 1,
              editDistance(Tail(s), Tail(t))
                  + (IF Head(s) = Head(t) THEN 0 ELSE 1))

\* C24: levenshtein is the edit distance, and scoreStress is
\* 1 - distance / max length of the stress patterns, 0 when both are empty
C24_ScoreStress ==
    /\ lastCall.op = "levenshtein"
           => lastCall.res = editDistance(lastCall.s, lastCall.t)
    /\ lastCall.op = "scoreStress" =>
           \A sc \in {lastCall.c.s}, st \in {lastCall.t.s} :
               lastCall.res =
                   IF sc = <<>> /\ st = <<>> THEN RZero
                   ELSE RSub(ROne, Rat(editDistance(sc, st),
                                       Max(Len(sc), Len(st))))

\* C24 witness: stress patterns of different lengths that need a
\* substitution as well, scored strictly between 0 and 1
C24_Witness ==
    /\ lastCall.op = "scoreStress"
    /\ Len(lastCall.c.s) # Len(lastCall.t.s)
    /\ editDistance(lastCall.c.s, lastCall.t.s)
           > Abs(Len(lastCall.c.s) - Len(lastCall.t.s))
    /\ RLt(RZero, lastCall.res)
    /\ RLt(lastCall.res, ROne)

----------------------------------------------------------------------------
(* Consistency of what the build script has built                          *)

\* the list an index holds under a key, empty when it has no such key
listUnder(index, key) == IF hasKey(index, key) THEN get(index, key)[1] ELSE <<>>

noneTwice(list) == \A i, j \in 1..Len(list) : list[i] = list[j] => i = j

\* the perfect rhyme key of a sequence with a vowel phoneme: from the last
\* vowel phoneme to the end, joined by single spaces
perfectKeyOf(p) == join(SubSeq(p, Greatest(vowelPositions(p)), Len(p)), <<" ">>)

\* the last n phonemes joined by single spaces
tailKeyOf(p, n) == join(SubSeq(p, Len(p) - n + 1, Len(p)), <<" ">>)

\* every line read that is neither a variant of a present word nor malformed
\* brought a new word
NoWordTwice ==
    \A n \in 1..Len(Read) :
        repeatsWord(n) => variantSuffixLen(split(Read[n], <<" ", " ">>)[1]) > 0

perfectIndexConsistent(b) ==
    /\ \A i \in 1..Len(b.lexicon) :
           \A w \in {b.lexicon[i].k}, e \in {b.lexicon[i].v} :
               IF vowelPositions(e.p) # {}
               THEN w \in Range(listUnder(b.perfectIndex, perfectKeyOf(e.p)))
               ELSE e.c = 0 /\ w \notin listedIn(b.perfectIndex)
    /\ \A i \in 1..Len(b.perfectIndex) :
           /\ noneTwice(b.perfectIndex[i].v)
           /\ \A w \in Range(b.perfectIndex[i].v) :
                  /\ hasKey(b.lexicon, w)
                  /\ vowelPositions(get(b.lexicon, w)[1].p) # {}
                  /\ b.perfectIndex[i].k = perfectKeyOf(get(b.lexicon, w)[1].p)

\* C25: a word is listed under a PerfectIndex key exactly when it is a lexicon
\* word with a vowel phoneme and the key is its perfect rhyme key; a word
\* without a vowel phoneme is in the lexicon with count 0 and under no key;
\* no word is twice under a key
C25_PerfectIndexConsistent ==
    /\ perfectIndexConsistent(Built)
    /\ \A n \in 1..Len(Read) :
           carriesWord(Read[n]) => hasKey(Built.lexicon, wordOfLine(Read[n]))

\* C25, for dictionaries that give no word a second line of its own
C25_ConsistentWithoutRepeats ==
    NoWordTwice => perfectIndexConsistent(Built)

tailIndexConsistent(b) ==
    /\ \A i \in 1..Len(b.lexicon) :
           \A w \in {b.lexicon[i].k}, p \in {b.lexicon[i].v.p} :
               /\ \A n \in {2, 3} :
                      Len(p) >= n
                          => w \in Range(listUnder(b.tailIndex, tailKeyOf(p, n)))
               /\ Len(p) < 2 => w \notin listedIn(b.tailIndex)
    /\ \A i \in 1..Len(b.tailIndex) :
           /\ noneTwice(b.tailIndex[i].v)
           /\ \A w \in Range(b.tailIndex[i].v) :
                  /\ hasKey(b.lexicon, w)
                  /\ \E n \in {2, 3} :
                         /\ Len(get(b.lexicon, w)[1].p) >= n
                         /\ b.tailIndex[i].k = tailKeyOf(get(b.lexicon, w)[1].p, n)

\* C26: a word is listed under a TailIndex key exactly when it is a lexicon
\* word with at least N phonemes, N in {2, 3}, whose last N phonemes make the
\* key; a word with fewer than 2 phonemes is under no key; no word is twice
\* under a key
C26_TailIndexConsistent == tailIndexConsistent(Built)

\* C26, for dictionaries that give no word a second line of its own
C26_ConsistentWithoutRepeats ==
    NoWordTwice => tailIndexConsistent(Built)

\* the digit of a phoneme symbol
digitIn(phoneme) == CHOOSE d \in DigitChars : includes(phoneme, d)

\* the positions of the vowel phonemes, in phoneme order
vowelsInOrder(p) ==
    SelectSeq([i \in 1..Len(p) |-> i],
              LAMBDA i : \E j \in 1..Len(p[i]) : p[i][j] \in DigitChars)

\* C27: in every entry built, the count is the length of the stress pattern,
\* and the pattern has one digit for each vowel phoneme, in phoneme order
C27_StressPattern ==
    \A i \in 1..Len(Built.lexicon) :
        \A e \in {Built.lexicon[i].v} :
            /\ e.c = Len(e.s)
            /\ Len(e.s) = Len(vowelsInOrder(e.p))
            /\ \A k \in 1..Len(e.s) : e.s[k] = digitIn(e.p[vowelsInOrder(e.p)[k]])

\* C27 witness: an entry with two vowel phonemes of different stress and an
\* entry with none
C27_Witness ==
    /\ \E i \in 1..Len(Built.lexicon) :
           /\ Built.lexicon[i].v.s = <<"1", "0">>
           /\ Built.lexicon[i].v.c = 2
    /\ \E i \in 1..Len(Built.lexicon) :
           /\ Built.lexicon[i].v.s = <<>>
           /\ Built.lexicon[i].v.c = 0

isComment(line) == startsWith(line, <<";", ";", ";">>)

\* the line has no two-space separator after the word
unseparated(line) == Len(split(line, <<" ", " ">>)) < 2

\* the line has no phoneme field, or a blank one
lacksPhonemeField(line) ==
    \/ unseparated(line)
    \/ trim(split(line, <<" ", " ">>)[2]) = <<>>

\* the lines of the given kind changed nothing when they were read, and what
\* has been built is what the other lines alone give
skipped(malformed(_)) ==
    /\ \A n \in 1..Len(Read) :
           malformed(Read[n]) => sameData(builtAfter(n), builtAfter(n - 1))
    /\ sameData(Built,
                buildFrom(EmptyBuild,
                          SelectSeq(Read, LAMBDA line : ~malformed(line))))

\* C28: a comment line and a line that lacks the phoneme field leave the
\* lexicon and the indices unchanged, and the other lines are processed as
\* if the malformed ones were not there
C28_MalformedSkipped ==
    skipped(LAMBDA line : isComment(line) \/ lacksPhonemeField(line))

\* C28, for comment lines and lines without the separator
C28_UnseparatedSkipped ==
    skipped(LAMBDA line : isComment(line) \/ unseparated(line))

\* C28, the case that holds: a comment line and an unseparated line read
\* between two lines that each brought a word
C28_SkippedBetweenWords ==
    /\ Len(Built.lexicon) >= 1
    /\ \E n \in 1..Len(Read) : isComment(Read[n])
    /\ \E n \in 1..Len(Read) : ~isComment(Read[n]) /\ unseparated(Read[n])

----------------------------------------------------------------------------
(* The order of the lexicon entries, and the order of checkRhyme's arguments *)

\* C29: compare returns the same ordered list when the lexicon's entries are
\* enumerated in the opposite order
C29_OrderIndependent ==
    Compared =>
        lastCall.res = compare([Engine EXCEPT !.lexicon = reverseSeq(Engine.lexicon)],
                               lastCall.req)

\* C29, the calls in which no two returned candidates are within 0.001 of
\* each other: they do not depend on the order of the entries
C29_OrderIndependentWithoutTies ==
    (/\ Compared
     /\ \A c \in {compare(Engine, [lastCall.req EXCEPT !.limit = None]).candidates} :
            \A i, j \in 1..Len(c) :
                i # j => RLt(Tolerance,
                             RAbs(RSub(c[i].totalScore, c[j].totalScore))))
        => lastCall.res = compare([Engine EXCEPT !.lexicon = reverseSeq(Engine.lexicon)],
                                  lastCall.req)

\* C30: checkRhyme gives the same answer with its arguments exchanged
C30_Symmetric ==
    Checked => lastCall.res = checkRhyme(Engine, lastCall.b, lastCall.a)

\* C30 witness: two lexicon words with phoneme sequences of different
\* lengths, judged a rhyme
C30_Witness ==
    /\ Checked /\ CanonA # CanonB
    /\ isKey(CanonA) /\ isKey(CanonB)
    /\ Len(entryOf(CanonA).p) < Len(entryOf(CanonB).p)
    /\ lastCall.res

====
